---- MODULE Spec2Model ----
(***************************************************************************)
(* Verification model of the motion-search complexity analyzer.            *)
(*                                                                         *)
(*   Spec      ComplexityAnalyzer::analyze() driving a frame source (the   *)
(*             native raw reader or FFmpegSequenceReader) through the      *)
(*             GOP/subGOP state machine and the one-slot reorder buffer.   *)
(*   FairSpec  Spec with weak fairness of the next step (single thread).   *)
(*   SpecMain  main(): two batch runs over the same input, conversion,     *)
(*             serialisation and the shutdown path.                        *)
(*   SpecFlags main() over the command lines ParseAndValidateFlags may     *)
(*             reject.                                                     *)
(*   SpecPicture  one picture through process_i/p/b_picture.               *)
(*   SpecKernel   one call of a SAD, variance or bidirectional MSE kernel. *)
(*   SpecPlane    a padded plane through extend.                           *)
(*   SpecOpen     FFmpegSequenceReader::Open with a failing step.          *)
(*   SpecAgain    Spec with analyze() called again on the same analyzer.   *)
(***************************************************************************)
EXTENDS Integers, Sequences, FiniteSets, TLC

(***************************************************************************)
(* Bounds of the model.                                                    *)
(***************************************************************************)
MaxFrames == 5      \* longest native source, in frames
MaxPkts   == 2      \* longest demuxed packet prefix of an FFmpeg source
MaxGop    == 4      \* largest gop_size
MaxB      == 2      \* largest b_frames
MaxCap    == 4      \* largest num_frames cap (0 = no cap)
MaxTrace  == 24     \* events kept in the trace of analyze()

VARIABLES
  \* ---- ComplexityAnalyzer fields
  m_GOP_size,         \* gop_size
  m_subGOP_size,      \* b_frames + 1
  m_num_frames,       \* frame cap, 0 = all
  pics,               \* frame ring: slot -> [pos, ext]
  m_info,             \* record list returned by getInfo()
  m_pReorderedInfo,   \* held-back I/P record, or NULL
  \* ---- locals and position of analyze()
  pc, td, td_ref, j,
  \* ---- the reader (IVideoSequenceReader)
  readerKind,         \* "native" | "ffmpeg"
  eofEager,           \* native reader: eof() true as soon as the last frame is read
  source,             \* [pkts, demux]: what the file holds
  srcPos,             \* packets / frames consumed from the file
  decBuf,             \* frames sent to the decoder and not yet received
  eof_,               \* the reader's end-of-file flag
  m_count,            \* count(): frames produced so far
  \* ---- observation only
  created,            \* every record created so far, in creation order
  failure,            \* a non-EOF source failure has happened
  eofCaught,          \* analyze() caught EOFException
  iterReads,          \* frames read by the current outer-loop iteration
  \* ---- main(): the inputs of a run
  format,             \* --format
  detail,             \* --detail
  outputFile,         \* --output, "-" is stdout
  inputOk,            \* getReader() finds a readable, supported input
  outputOk,           \* the output file can be opened
  info,               \* the record list analyze() yields for the input
  \* ---- main(): the process
  mpc, run, clock, results, out_stream, file_stream, exitStatus,
  outputs,            \* what each run wrote
  stamps,             \* system_clock::now() of each run's conversion
  \* ---- one picture through process_i/p/b_picture
  m_dim,              \* [width, height] of the frame
  m_mses,             \* per-MB MSE array with its one-cell guard border
  m_weights,          \* ComplexityWeights, fixed point
  picture,            \* the picture and what the search finds in it
  search,             \* what the search returned: error, bits, counts
  m_rec,              \* the record add_info_enhanced built
  firstRec,           \* the record of the first analyzer, for comparison
  ppc, prun,          \* position, and which analyzer is running
  \* ---- one call of a block kernel
  kernelIn,           \* the kernel called and its arguments
  kernelOut,          \* [done, value]: what the call returned
  kpc,                \* position of the call
  \* ---- main(): the command line
  FLAGS,              \* the flags as given (absl::GetFlag)
  ctx,                \* CTX as ParseAndValidateFlags leaves it
  warned,             \* warnings printed at startup
  \* ---- FFmpegSequenceReader::Open
  rd,                 \* the reader's FFmpeg handles and video_stream_idx_
  streams,            \* the streams of the file being opened
  fault,              \* the step of Open that fails, "none" if none does
  live,               \* FFmpeg objects allocated and not yet freed
  opc,                \* position in Open
  openResult,         \* what Open returned
  \* ---- one padded plane through extend
  plane,              \* samples by [y][x], padding included
  planeDim,           \* [width, height, pad_x, pad_y]
  xpc,                \* position
  \* ---- observation of analyze()
  trace,              \* reads and searches of analyze(), in order
  calls               \* analyze() calls made so far

analyzerVars == <<m_GOP_size, m_subGOP_size, m_num_frames, pics, m_info,
                  m_pReorderedInfo, pc, td, td_ref, j>>
readerVars   == <<readerKind, eofEager, source, srcPos, decBuf, eof_, m_count>>
ghostVars    == <<created, failure, eofCaught, iterReads>>
mainVars     == <<format, detail, outputFile, inputOk, outputOk, info, mpc, run,
                  clock, results, out_stream, file_stream, exitStatus, outputs,
                  stamps>>
pictureVars  == <<m_dim, m_mses, m_weights, picture, search, m_rec, firstRec,
                  ppc, prun>>
kernelVars   == <<kernelIn, kernelOut, kpc>>
flagVars     == <<FLAGS, ctx, warned>>
openVars     == <<rd, streams, fault, live, opc, openResult>>
planeVars    == <<plane, planeDim, xpc>>
traceVars    == <<trace, calls>>
vars == <<analyzerVars, readerVars, ghostVars, mainVars, pictureVars, kernelVars, flagVars, openVars, planeVars, traceVars>>

(***************************************************************************)
(* Frame sources.                                                          *)
(***************************************************************************)
RECURSIVE SeqsUpTo(_, _)
SeqsUpTo(S, n) ==
  IF n = 0 THEN {<<>>}
  ELSE LET shorter == SeqsUpTo(S, n - 1)
       IN  shorter \cup {Append(s, x) : s \in {t \in shorter : Len(t) = n - 1}, x \in S}

NativeSource(n) == [pkts |-> [i \in 1..n |-> "video"], demux |-> "eof"]

\* A demuxed prefix of well-formed packets, optionally one packet on which the
\* decoder fails, then what av_read_frame reports once the packets are used up.
FFmpegSources ==
  LET prefixes == SeqsUpTo({"video", "again", "other"}, MaxPkts)
  IN  {[pkts |-> p, demux |-> d] : p \in prefixes, d \in {"eof", "ioerr"}}
      \cup {[pkts |-> Append(p, k), demux |-> "eof"] :
              p \in prefixes, k \in {"badsend", "badrecv", "recveof"}}

\* Frames of the video stream held by the source.
StreamFrames(src) ==
  Cardinality({i \in 1..Len(src.pkts) : src.pkts[i] \in {"video", "again"}})


(***************************************************************************)
(* FFmpegSequenceReader.                                                   *)
(***************************************************************************)
DecodeResult(ok, pos, buf, eof, fail) ==
  [ok |-> ok, pos |-> pos, buf |-> buf, eof |-> eof, fail |-> fail]

\* decodeNextFrame(): pull packets until the decoder hands out a frame.
\* eof: the call set eof_; fail: it returned false for a reason other than
\* end of file.
RECURSIVE decodeNextFrame(_, _, _)
decodeNextFrame(src, pos, buf) ==
  IF pos >= Len(src.pkts)
  THEN \* av_read_frame() < 0
       IF src.demux = "eof"
       THEN \* flush the decoder, take one frame if it still holds any
            IF buf > 0 THEN DecodeResult(TRUE, pos, buf - 1, TRUE, FALSE)
                       ELSE DecodeResult(FALSE, pos, buf, TRUE, FALSE)
       ELSE DecodeResult(FALSE, pos, buf, FALSE, TRUE)
  ELSE LET k == src.pkts[pos + 1]
       IN  CASE k = "other"   -> decodeNextFrame(src, pos + 1, buf)
             [] k = "badsend" -> DecodeResult(FALSE, pos + 1, buf, FALSE, TRUE)
             [] k = "video"   -> DecodeResult(TRUE, pos + 1, buf, FALSE, FALSE)
             [] k = "again"   -> decodeNextFrame(src, pos + 1, buf + 1)
             [] k = "recveof" -> DecodeResult(FALSE, pos + 1, buf, TRUE, FALSE)
             [] k = "badrecv" -> DecodeResult(FALSE, pos + 1, buf, FALSE, TRUE)

ReadResult(thrown, pos, buf, eof, fail) ==
  [thrown |-> thrown, srcPos |-> pos, decBuf |-> buf, eof_ |-> eof, fail |-> fail]

\* What readPicture() raises when decodeNextFrame() returns false.
DecodeFailureException(d) == "EOFException"

\* readPicture() that leaves eof_ as decodeNextFrame() set it, and
\* FFmpegSequenceReader::readPicture()
FFmpegReadPicture_EofAsDecoded(src, pos, buf, eof) ==
  IF eof THEN ReadResult("EOFException", pos, buf, eof, FALSE)
  ELSE LET d == decodeNextFrame(src, pos, buf)
       IN  IF ~d.ok
           THEN ReadResult(DecodeFailureException(d), d.pos, d.buf, d.eof, d.fail)
           ELSE ReadResult("none", d.pos, d.buf, d.eof, FALSE)

FFmpegReadPicture(src, pos, buf, eof) ==
  IF eof THEN ReadResult("EOFException", pos, buf, eof, FALSE)
  ELSE LET d == decodeNextFrame(src, pos, buf)
       IN  IF ~d.ok
           THEN ReadResult(DecodeFailureException(d), d.pos, d.buf, TRUE, d.fail)
           ELSE ReadResult("none", d.pos, d.buf, d.eof, FALSE)

\* FFmpegSequenceReader::eof()
FFmpegEof(eof) == eof

(***************************************************************************)
(* The native reader and the reader base class.                            *)
(***************************************************************************)
\* readPicture() of the raw planar reader: the next frame, or EndOfStream on a
\* read past the end.
NativeReadPicture(src, pos, buf, eof) ==
  IF pos < Len(src.pkts) THEN ReadResult("none", pos + 1, buf, eof, FALSE)
                         ELSE ReadResult("EOFException", pos, buf, TRUE, FALSE)

\* at_eof() of the raw planar reader.
NativeEof(src, pos, eof, eager) == eof \/ (eager /\ pos >= Len(src.pkts))

ReadPicture ==
  IF readerKind = "ffmpeg" THEN FFmpegReadPicture(source, srcPos, decBuf, eof_)
                           ELSE NativeReadPicture(source, srcPos, decBuf, eof_)

ReaderEof ==
  IF readerKind = "ffmpeg" THEN FFmpegEof(eof_)
                           ELSE NativeEof(source, srcPos, eof_, eofEager)

\* IVideoSequenceReader::read(): readPicture(), then one more frame counted.
CountAfterRead(r) == IF r.thrown = "none" THEN m_count + 1 ELSE m_count

ApplyRead(r) ==
  /\ srcPos' = r.srcPos
  /\ decBuf' = r.decBuf
  /\ eof_' = r.eof_
  /\ m_count' = CountAfterRead(r)
  /\ failure' = (failure \/ r.fail)
  /\ UNCHANGED <<readerKind, eofEager, source>>


(***************************************************************************)
(* ComplexityAnalyzer.                                                     *)
(***************************************************************************)
NULL == [id |-> 0, picNum |-> -1, picType |-> "-"]

EmptyFrame == [pos |-> -1, ext |-> FALSE]

\* The record add_info_enhanced() allocates: numbering converted to 0..N-1.
NewRecord(num, p) == [id |-> Len(created) + 1, picNum |-> num - 1, picType |-> p]

\* add_info_enhanced(): an I or P record is held back and flushes the record
\* held before it; a B record goes straight to the list.
add_info_enhanced(list, held, rec) ==
  IF rec.picType = "I" \/ rec.picType = "P"
  THEN [list |-> IF held # NULL THEN Append(list, held) ELSE list, held |-> rec]
  ELSE [list |-> Append(list, rec), held |-> held]

AddInfo(num, p) ==
  LET rec == NewRecord(num, p)
      a   == add_info_enhanced(m_info, m_pReorderedInfo, rec)
  IN  /\ m_info' = a.list
      /\ m_pReorderedInfo' = a.held
      /\ created' = Append(created, rec)

\* while (m_num_frames > 0 ? count() < m_num_frames : !eof())
LoopCondition ==
  IF m_num_frames > 0 THEN m_count < m_num_frames ELSE ~ReaderEof

\* for (...; td < (m_GOP_size - 1) && (td - td_ref) < m_subGOP_size; td++)
ReadAheadCondition(t, tref) ==
  t < (m_GOP_size - 1) /\ (t - tref) < m_subGOP_size

\* Variant: the B loop runs up to and including the P slot.
BLoopCondition_Inclusive(jj, t, tref) == jj <= t - tref

\* for (int j = 1; j < td - td_ref; j++)
BLoopCondition(jj, t, tref) == jj < t - tref

\* Variant: EOFException caught inside the while loop, which then goes on.
OnException_Retry(thrown) == IF thrown = "EOFException" THEN "cond" ELSE "error"

\* Where control goes when a read raises: the catch clause sits outside the
\* while loop, anything but EOFException leaves analyze().
OnException(thrown) == IF thrown = "EOFException" THEN "flush" ELSE "error"

\* Variant: analyze() returns without flushing the held record.
FlushPending_Dropped(list, held) == list

\* The last statement of analyze(): the held record joins the list.
FlushPending(list, held) == IF held # NULL THEN Append(list, held) ELSE list

\* YUVFrame::swapFrame
swapFrame(ring, a, b) == [ring EXCEPT ![a] = ring[b], ![b] = ring[a]]

\* YUVFrame::boundaryExtend left out, and YUVFrame::boundaryExtend.
boundaryExtend_Skipped(frame) == frame
boundaryExtend(frame) == [frame EXCEPT !.ext = TRUE]

\* What the trace keeps of a read: what it raised, count() and eof() after it.
ReadEvent(r) ==
  [ev |-> "read", thrown |-> r.thrown, count |-> CountAfterRead(r),
   eof |-> IF readerKind = "ffmpeg" THEN FFmpegEof(r.eof_)
           ELSE NativeEof(source, r.srcPos, r.eof_, eofEager)]

\* What the trace keeps of a search: the slot and frame of the target and of
\* its forward and backward reference (-1: none), and whether each reference
\* has been extended since it was filled.
SearchEvent(kind, ring, target, fwd, back) ==
  [ev |-> kind, slot |-> target, pos |-> ring[target].pos,
   fwd |-> fwd, fwdPos |-> IF fwd >= 0 THEN ring[fwd].pos ELSE -1,
   fwdExt |-> IF fwd >= 0 THEN ring[fwd].ext ELSE TRUE,
   back |-> back, backPos |-> IF back >= 0 THEN ring[back].pos ELSE -1,
   backExt |-> IF back >= 0 THEN ring[back].ext ELSE TRUE]

\* The trace with the events added; it keeps at most MaxTrace events.
Logged(events) ==
  IF Len(trace) + Len(events) <= MaxTrace THEN trace \o events ELSE trace

\* The slots process_b_picture(pics[j], pics[0], pics[td - td_ref]) is given,
\* and the same with the two references exchanged.
BSearchSlots_Exchanged(jj, t, tref) ==
  [target |-> jj, forward |-> t - tref, reverse |-> 0]
BSearchSlots(jj, t, tref) == [target |-> jj, forward |-> 0, reverse |-> t - tref]

RaiseFrom(r) ==
  /\ pc' = OnException(r.thrown)
  /\ eofCaught' = (eofCaught \/ r.thrown = "EOFException")

AnalyzeCall ==
  /\ pc = "idle"
  /\ pc' = "cond"
  /\ td' = 0
  /\ calls' = calls + 1
  /\ UNCHANGED <<m_GOP_size, m_subGOP_size, m_num_frames, pics, m_info,
                 m_pReorderedInfo, td_ref, j, readerVars, ghostVars, mainVars, pictureVars,
                 kernelVars, flagVars, openVars, planeVars, trace>>

LoopTest ==
  /\ pc = "cond"
  /\ pc' = IF LoopCondition THEN "body" ELSE "flush"
  /\ iterReads' = 0
  /\ UNCHANGED <<m_GOP_size, m_subGOP_size, m_num_frames, pics, m_info,
                 m_pReorderedInfo, td, td_ref, j, readerVars, created, failure,
                 eofCaught, mainVars, pictureVars,
                 kernelVars, flagVars, openVars, planeVars, traceVars>>

\* First frame of a GOP: read slot 0 and run the spatial search.
GopStart ==
  /\ pc = "body"
  /\ (m_count % m_GOP_size) = 0
  /\ LET r == ReadPicture
     IN  /\ ApplyRead(r)
         /\ IF r.thrown = "none"
            THEN /\ pics' = [pics EXCEPT ![0] =
                                   boundaryExtend([pos |-> m_count, ext |-> FALSE])]
                 /\ trace' = Logged(<< ReadEvent(r),
                                       SearchEvent("I", [pics EXCEPT ![0] =
                                                     [pos |-> m_count, ext |-> FALSE]],
                                                   0, -1, -1) >>)
                 /\ AddInfo(CountAfterRead(r), "I")
                 /\ td' = 0
                 /\ td_ref' = 0
                 /\ iterReads' = iterReads + 1
                 /\ pc' = "readahead"
                 /\ UNCHANGED eofCaught
            ELSE /\ RaiseFrom(r)
                 /\ trace' = Logged(<<ReadEvent(r)>>)
                 /\ UNCHANGED <<pics, m_info, m_pReorderedInfo, created, td,
                                td_ref, iterReads>>
  /\ UNCHANGED <<m_GOP_size, m_subGOP_size, m_num_frames, j, mainVars, pictureVars,
                 kernelVars, flagVars, openVars, planeVars, calls>>

\* Inside a GOP: the previous P picture becomes the anchor.
SwapAnchor ==
  /\ pc = "body"
  /\ (m_count % m_GOP_size) # 0
  /\ pics' = swapFrame(pics, 0, m_subGOP_size)
  /\ td_ref' = td
  /\ pc' = "readahead"
  /\ UNCHANGED <<m_GOP_size, m_subGOP_size, m_num_frames, m_info,
                 m_pReorderedInfo, td, j, readerVars, ghostVars, mainVars, pictureVars,
                 kernelVars, flagVars, openVars, planeVars, traceVars>>

\* One pass of the read-ahead loop.
ReadAhead ==
  /\ pc = "readahead"
  /\ ReadAheadCondition(td, td_ref)
  /\ LET r == ReadPicture
     IN  /\ ApplyRead(r)
         /\ trace' = Logged(<<ReadEvent(r)>>)
         /\ IF r.thrown = "none"
            THEN /\ pics' = [pics EXCEPT ![td + 1 - td_ref] =
                                           [pos |-> m_count, ext |-> FALSE]]
                 /\ td' = td + 1
                 /\ iterReads' = iterReads + 1
                 /\ UNCHANGED <<pc, eofCaught>>
            ELSE /\ RaiseFrom(r)
                 /\ UNCHANGED <<pics, td, iterReads>>
  /\ UNCHANGED <<m_GOP_size, m_subGOP_size, m_num_frames, m_info,
                 m_pReorderedInfo, td_ref, j, created, mainVars, pictureVars,
                 kernelVars, flagVars, openVars, planeVars, calls>>

\* process_p_picture(pics[td - td_ref], pics[0])
ProcessP ==
  /\ pc = "readahead"
  /\ ~ReadAheadCondition(td, td_ref)
  /\ AddInfo(m_count, "P")
  /\ pics' = [pics EXCEPT ![td - td_ref] = boundaryExtend(@)]
  /\ trace' = Logged(<<SearchEvent("P", pics, td - td_ref, 0, -1)>>)
  /\ j' = 1
  /\ pc' = "bloop"
  /\ UNCHANGED <<m_GOP_size, m_subGOP_size, m_num_frames, td, td_ref,
                 readerVars, failure, eofCaught, iterReads, mainVars, pictureVars,
                 kernelVars, flagVars, openVars, planeVars, calls>>

\* process_b_picture(pics[j], pics[0], pics[td - td_ref])
ProcessB ==
  /\ pc = "bloop"
  /\ BLoopCondition(j, td, td_ref)
  /\ AddInfo(m_count - (pics[td - td_ref].pos - pics[j].pos), "B")
  /\ LET slots == BSearchSlots(j, td, td_ref)
     IN  trace' = Logged(<<SearchEvent("B", pics, slots.target,
                                           slots.forward, slots.reverse)>>)
  /\ j' = j + 1
  /\ UNCHANGED <<m_GOP_size, m_subGOP_size, m_num_frames, pics, pc, td, td_ref,
                 readerVars, failure, eofCaught, iterReads, mainVars, pictureVars,
                 kernelVars, flagVars, openVars, planeVars, calls>>

EndIteration ==
  /\ pc = "bloop"
  /\ ~BLoopCondition(j, td, td_ref)
  /\ pc' = "cond"
  /\ UNCHANGED <<m_GOP_size, m_subGOP_size, m_num_frames, pics, m_info,
                 m_pReorderedInfo, td, td_ref, j, readerVars, ghostVars, mainVars, pictureVars,
                 kernelVars, flagVars, openVars, planeVars, traceVars>>

\* After the try block: flush the held record, analyze() returns.
Flush ==
  /\ pc = "flush"
  /\ m_info' = FlushPending(m_info, m_pReorderedInfo)
  /\ pc' = "done"
  /\ UNCHANGED <<m_GOP_size, m_subGOP_size, m_num_frames, pics,
                 m_pReorderedInfo, td, td_ref, j, readerVars, ghostVars, mainVars, pictureVars,
                 kernelVars, flagVars, openVars, planeVars, traceVars>>

\* No command line is being parsed.
FlagsIdle == FLAGS = <<>> /\ ctx = <<>> /\ warned = {}

\* No reader is being opened.
OpenIdle ==
  /\ rd = <<>> /\ streams = <<>> /\ fault = "none" /\ live = {} /\ opc = "off"
  /\ openResult = "none"

\* No plane is being extended.
PlaneIdle == plane = <<>> /\ planeDim = <<>> /\ xpc = "off"

\* No kernel call is being modelled.
KernelIdle ==
  /\ kernelIn = <<>> /\ kernelOut = [done |-> FALSE, value |-> 0] /\ kpc = "off"

\* No picture is being processed step by step.
PictureIdle ==
  /\ m_dim = [width |-> 0, height |-> 0] /\ m_mses = <<>>
  /\ m_weights = <<>> /\ picture = <<>> /\ search = <<>>
  /\ m_rec = <<>> /\ firstRec = <<>> /\ ppc = "off" /\ prun = 0

MainIdle ==
  /\ format = "csv" /\ detail = "frame" /\ outputFile = "-"
  /\ inputOk = TRUE /\ outputOk = TRUE /\ info = <<>>
  /\ mpc = "off" /\ run = 0 /\ clock = 0 /\ results = <<>>
  /\ out_stream = "null" /\ file_stream = "closed" /\ exitStatus = "none"
  /\ outputs = <<>> /\ stamps = <<>>

InitAnalyzer ==
  /\ m_GOP_size \in 1..MaxGop
  /\ m_subGOP_size \in 1..(MaxB + 1)
  /\ m_num_frames \in 0..MaxCap
  /\ pics = [s \in 0..m_subGOP_size |-> EmptyFrame]
  /\ m_info = <<>>
  /\ m_pReorderedInfo = NULL
  /\ pc = "idle" /\ td = 0 /\ td_ref = 0 /\ j = 0
  /\ srcPos = 0 /\ decBuf = 0 /\ eof_ = FALSE /\ m_count = 0
  /\ created = <<>> /\ failure = FALSE /\ eofCaught = FALSE /\ iterReads = 0
  /\ trace = <<>> /\ calls = 0

Init ==
  /\ \/ /\ readerKind = "native"
        /\ eofEager \in BOOLEAN
        /\ \E n \in 0..MaxFrames : source = NativeSource(n)
     \/ /\ readerKind = "ffmpeg"
        /\ eofEager = FALSE
        /\ source \in FFmpegSources
  /\ InitAnalyzer
  /\ MainIdle
  /\ PictureIdle
  /\ KernelIdle
  /\ FlagsIdle
  /\ OpenIdle
  /\ PlaneIdle

Next ==
  \/ AnalyzeCall
  \/ LoopTest
  \/ GopStart
  \/ SwapAnchor
  \/ ReadAhead
  \/ ProcessP
  \/ ProcessB
  \/ EndIteration
  \/ Flush

Spec == Init /\ [][Next]_vars

FairSpec == Spec /\ WF_vars(Next)


(***************************************************************************)
(* Properties of analyze().                                                *)
(***************************************************************************)
Range(seq) == {seq[i] : i \in 1..Len(seq)}

Returned == pc = "done"

DisplayOrder(list) ==
  \A i \in 1..(Len(list) - 1) : list[i].picNum < list[i + 1].picNum

\* C1: after analyze() returns, the record list is in strict display order
\* (records[i].picNum < records[i+1].picNum) for every gop_size >= 1, every
\* b_frames >= 0 and every source length.
C1_DisplayOrder == Returned => DisplayOrder(m_info)

\* A source that delivers its N frames and then reports end of file.
CleanSource == source = NativeSource(Len(source.pkts))

\* C2: without a frame cap a source of N frames yields exactly N records,
\* picNum 0..N-1 in order, each once: frames read into the ring before EOF
\* are still analysed.
C2_AllFramesAnalysed ==
  (Returned /\ m_num_frames = 0 /\ CleanSource)
    => /\ Len(m_info) = StreamFrames(source)
       /\ \A i \in 1..Len(m_info) : m_info[i].picNum = i - 1

\* C3: with a cap num_frames = n > 0 and a source of at least n frames,
\* analyze() returns exactly n records and reads no more than n frames.
C3_CapRespected ==
  (Returned /\ m_num_frames > 0 /\ CleanSource
     /\ StreamFrames(source) >= m_num_frames)
    => (Len(m_info) = m_num_frames /\ m_count <= m_num_frames)

\* C4: for gop_size = g the record at every list index 0, g, 2g, ... of the
\* returned list has type I.
C4_GopBoundaryIsI ==
  Returned =>
    \A i \in 1..Len(m_info) :
      ((i - 1) % m_GOP_size = 0) => m_info[i].picType = "I"


\* C5: with b_frames = 0 no record of type B is ever produced, so every record
\* of the returned list has type I or P, for every gop_size and source length.
C5_NoBWithoutBFrames ==
  (m_subGOP_size = 1) =>
    /\ \A i \in 1..Len(created) : created[i].picType # "B"
    /\ \A i \in 1..Len(m_info) : m_info[i].picType \in {"I", "P"}

C5_Witness ==
  /\ Returned /\ m_subGOP_size = 1 /\ m_GOP_size >= 2
  /\ Len(m_info) >= 3
  /\ \E i \in 1..Len(m_info) : m_info[i].picType = "P"

\* C6: when a read inside analyze() signals EndOfStream, analyze() returns
\* normally, the held record is flushed into the list and every record
\* produced before the EOF is in getInfo().
C6_EofKeepsRecords ==
  eofCaught =>
    /\ pc \in {"flush", "done"}
    /\ Returned =>
         /\ Range(created) \subseteq Range(m_info)
         /\ m_pReorderedInfo # NULL => m_pReorderedInfo = m_info[Len(m_info)]

C6_Witness ==
  /\ Returned /\ eofCaught
  /\ m_pReorderedInfo # NULL
  /\ Len(created) >= 3
  /\ \E i \in 1..Len(m_info) : m_info[i].picType = "B"

\* C7: a source failure that is not end-of-stream is never turned into normal
\* completion of analyze().
C7_FailurePropagates == failure => pc \notin {"flush", "done"}

\* C8: analyze() terminates for every finite source, gop_size >= 1 and
\* b_frames >= 0, with or without a cap: an outer-loop iteration that runs to
\* its end has read at least one new frame, and the call eventually returns.
C8_Termination ==
  /\ [](pc = "bloop" => iterReads >= 1)
  /\ <>(pc \in {"done", "error"})

C8_Witness ==
  /\ Returned
  /\ Len(created) >= 4
  /\ m_count >= 4


(***************************************************************************)
(* DataConverter.  A double is modelled by the rational it holds, kept in  *)
(* lowest terms so that equal values are equal.                            *)
(***************************************************************************)
MaxInfo == 3          \* longest record list handed to the converter
MaxClock == 3         \* latest clock reading, in ticks
TicksPerSecond == 2   \* clock ticks per second of wall time

RECURSIVE GCD(_, _)
GCD(a, b) == IF b = 0 THEN a ELSE GCD(b, a % b)

Rat(n, d) == LET g == GCD(n, d) IN [num |-> n \div g, den |-> d \div g]
RZero == [num |-> 0, den |-> 1]
RAdd(a, b) == Rat(a.num * b.den + b.num * a.den, a.den * b.den)
RDivInt(a, k) == Rat(a.num, a.den * k)

\* The video the runs analyse: reader->dim(), gop_size, b_frames, file name.
Video == [width |-> 32, height |-> 32, gop_size |-> 2, bframes |-> 1,
          input_format |-> "yuv", input_filename |-> "in.yuv"]

\* charToFrameType / frameTypeToString
charToFrameType(c) == IF c \in {"I", "P", "B"} THEN c ELSE "UNKNOWN"
frameTypeToString(t) == IF t \in {"I", "P", "B"} THEN t ELSE "UNKNOWN"

\* DataConverter::convertFrame
convertFrame(r, width, height) ==
  LET total_blocks == r.count_I + r.count_P + r.count_B
      num_pixels   == width * height
      spatial  == IF total_blocks > 0 THEN Rat(r.count_I, total_blocks) ELSE RZero
      motion   == IF total_blocks > 0
                  THEN Rat(r.count_P + r.count_B, total_blocks) ELSE RZero
      errmse   == IF num_pixels > 0 THEN Rat(r.error, num_pixels) ELSE RZero
      residual == IF num_pixels > 0 THEN Rat(r.bits, num_pixels) ELSE RZero
  IN  [frame_num |-> r.picNum,
       type |-> charToFrameType(r.picType),
       count_intra |-> r.count_I,
       count_inter_p |-> r.count_P,
       count_inter_b |-> r.count_B,
       estimated_bits |-> r.bits,
       error |-> r.error,
       spatial_complexity |-> spatial,
       motion_complexity |-> motion,
       residual_complexity |-> residual,
       error_mse |-> errmse,
       unified_complexity |-> RDivInt(RAdd(RAdd(spatial, motion), residual), 3),
       total_mv_count |-> total_blocks]

RECURSIVE SumBits(_)
SumBits(fs) == IF fs = <<>> THEN 0 ELSE Head(fs).estimated_bits + SumBits(Tail(fs))

RECURSIVE SumUnified(_)
SumUnified(fs) ==
  IF fs = <<>> THEN RZero ELSE RAdd(Head(fs).unified_complexity, SumUnified(Tail(fs)))

CountType(fs, t) == Cardinality({i \in 1..Len(fs) : fs[i].type = t})

\* One GOPData: frames[first .. last] (0-based, inclusive) as GOP number num.
MakeGop(frames, num, first, last) ==
  LET members == SubSeq(frames, first + 1, last + 1)
      frame_count == Len(members)
      total == SumUnified(members)
  IN  [gop_num |-> num,
       start_frame |-> frames[first + 1].frame_num,
       end_frame |-> frames[last + 1].frame_num,
       total_bits |-> SumBits(members),
       avg_complexity |-> IF frame_count > 0 THEN RDivInt(total, frame_count)
                                            ELSE total,
       i_frame_count |-> CountType(members, "I"),
       p_frame_count |-> CountType(members, "P"),
       b_frame_count |-> CountType(members, "B"),
       frames |-> members]

\* The test that closes the current GOP before frame i (0-based): an I frame
\* that is not the first record.  gop_size_reached is computed and not used.
\* Variant first: the GOP also closed when gop_size is reached.
ClosesGop_OrSize(frames, i, current_gop_start, gop_size) ==
  LET is_i_frame == frames[i + 1].type = "I"
      gop_size_reached ==
        i > 0 /\ (frames[i + 1].frame_num
                    - frames[current_gop_start + 1].frame_num) >= gop_size
  IN  (is_i_frame \/ gop_size_reached) /\ i > 0
ClosesGop(frames, i, current_gop_start, gop_size) ==
  LET is_i_frame == frames[i + 1].type = "I"
      gop_size_reached ==
        i > 0 /\ (frames[i + 1].frame_num
                    - frames[current_gop_start + 1].frame_num) >= gop_size
  IN  is_i_frame /\ i > 0

\* The loop of computeGOPData: a GOP is closed at every I frame after the first
\* record, the last one at the end of the list.
RECURSIVE GopLoop(_, _, _, _, _, _)
GopLoop(frames, gop_size, i, current_gop_start, current_gop_num, gops) ==
  IF i >= Len(frames)
  THEN Append(gops, MakeGop(frames, current_gop_num, current_gop_start,
                            Len(frames) - 1))
  ELSE IF ClosesGop(frames, i, current_gop_start, gop_size)
       THEN GopLoop(frames, gop_size, i + 1, i, current_gop_num + 1,
                    Append(gops, MakeGop(frames, current_gop_num,
                                         current_gop_start, i - 1)))
       ELSE GopLoop(frames, gop_size, i + 1, current_gop_start,
                    current_gop_num, gops)

\* DataConverter::computeGOPData
computeGOPData(frames, gop_size) ==
  IF frames = <<>> THEN <<>> ELSE GopLoop(frames, gop_size, 0, 0, 0, <<>>)

\* DataConverter::convert, now being the reading of the system clock.
convert(info_vec, v, now) ==
  LET frames == [i \in 1..Len(info_vec) |->
                   convertFrame(info_vec[i], v.width, v.height)]
  IN  [metadata |-> [width |-> v.width, height |-> v.height,
                     total_frames |-> Len(info_vec),
                     gop_size |-> v.gop_size, bframes |-> v.bframes,
                     input_format |-> v.input_format,
                     input_filename |-> v.input_filename,
                     analysis_time |-> now,
                     version |-> "2.0.0"],
       frames |-> frames,
       gops |-> computeGOPData(frames, v.gop_size)]


(***************************************************************************)
(* Output writers.  The text written is modelled by its fields in order.   *)
(***************************************************************************)
\* Variant: the time written with sub-second digits.
time_str_ticks(t) == t

\* to_time_t + strftime("%Y-%m-%dT%H:%M:%SZ"): the time to the whole second.
time_str(t) == t \div TicksPerSecond

\* std::fixed << std::setprecision(2): hundredths, rounded.
Fixed2(r) == (200 * r.num + r.den) \div (2 * r.den)

writeFrameHeader ==
  <<"picNum", "picType", "count_I", "count_P", "count_B", "error", "bits">>

writeGOPHeader ==
  <<"gop", "frames", "total_bits", "avg_complexity", "i_frames", "p_frames",
    "b_frames">>

writeFrameData(f) ==
  <<f.frame_num, frameTypeToString(f.type), f.count_intra, f.count_inter_p,
    f.count_inter_b, f.error, f.estimated_bits>>

writeGOPData(g) ==
  <<g.gop_num, g.end_frame - g.start_frame + 1, g.total_bits,
    Fixed2(g.avg_complexity), g.i_frame_count, g.p_frame_count,
    g.b_frame_count>>

\* CSVWriter::write
CSVWriter_write(res, level) ==
  IF level = "frame"
  THEN <<writeFrameHeader>> \o [i \in 1..Len(res.frames) |-> writeFrameData(res.frames[i])]
  ELSE <<writeGOPHeader>> \o [i \in 1..Len(res.gops) |-> writeGOPData(res.gops[i])]

FrameObject(f) ==
  [frame_num |-> f.frame_num,
   type |-> frameTypeToString(f.type),
   complexity |-> [spatial |-> f.spatial_complexity,
                   motion |-> f.motion_complexity,
                   residual |-> f.residual_complexity,
                   error_mse |-> f.error_mse,
                   unified |-> f.unified_complexity],
   block_modes |-> [intra |-> f.count_intra, inter_p |-> f.count_inter_p,
                    inter_b |-> f.count_inter_b],
   error |-> f.error,
   estimated_bits |-> f.estimated_bits,
   mv_stats |-> [mean_magnitude |-> 0, max_magnitude |-> 0, zero_mv_count |-> 0,
                 total_mv_count |-> f.total_mv_count]]

GopObject(g, level) ==
  LET head == [gop_num |-> g.gop_num, start_frame |-> g.start_frame,
               end_frame |-> g.end_frame, total_bits |-> g.total_bits,
               avg_complexity |-> g.avg_complexity,
               i_frame_count |-> g.i_frame_count,
               p_frame_count |-> g.p_frame_count,
               b_frame_count |-> g.b_frame_count]
  IN  IF level = "frame" /\ g.frames # <<>>
      THEN [head |-> head,
            frames |-> [i \in 1..Len(g.frames) |-> FrameObject(g.frames[i])]]
      ELSE [head |-> head]

\* JSONWriter::write
JSONWriter_write(res, level) ==
  [metadata |-> [width |-> res.metadata.width,
                 height |-> res.metadata.height,
                 frames |-> res.metadata.total_frames,
                 gop_size |-> res.metadata.gop_size,
                 bframes |-> res.metadata.bframes,
                 input_format |-> res.metadata.input_format,
                 input_filename |-> res.metadata.input_filename,
                 analysis_timestamp |-> time_str(res.metadata.analysis_time),
                 version |-> res.metadata.version],
   gops |-> [i \in 1..Len(res.gops) |-> GopObject(res.gops[i], level)]]

\* XMLWriter::write
XMLWriter_write(res, level) ==
  [motion_analysis |-> res.metadata.version,
   metadata |-> [video |-> <<res.metadata.width, res.metadata.height,
                             res.metadata.total_frames>>,
                 encoding |-> <<res.metadata.gop_size, res.metadata.bframes>>,
                 input |-> <<res.metadata.input_format,
                             res.metadata.input_filename>>,
                 timestamp |-> time_str(res.metadata.analysis_time)],
   gops |-> [i \in 1..Len(res.gops) |-> GopObject(res.gops[i], level)]]

ValidFormats == {"csv", "json", "xml"}
ValidDetails == {"frame", "gop"}

\* createOutputWriter(format, ...)->write(results)
WriteResults(fmt, level, res) ==
  CASE fmt = "csv"  -> CSVWriter_write(res, level)
    [] fmt = "json" -> JSONWriter_write(res, level)
    [] fmt = "xml"  -> XMLWriter_write(res, level)

(***************************************************************************)
(* main(): one process per run, two runs over the same input and flags.    *)
(***************************************************************************)
NoResults == <<>>

\* Records analyze() can hand over for a 32x32 picture (4 macroblocks).
RecordChoices ==
  { [picType |-> "I", count_I |-> 4, count_P |-> 0, count_B |-> 0,
     bits |-> 44, error |-> 8, unified_score_v2 |-> Rat(1, 2)],
    [picType |-> "P", count_I |-> 1, count_P |-> 3, count_B |-> 0,
     bits |-> 21, error |-> 4, unified_score_v2 |-> Rat(1, 4)],
    [picType |-> "B", count_I |-> 0, count_P |-> 1, count_B |-> 3,
     bits |-> 6, error |-> 2, unified_score_v2 |-> Rat(1, 8)] }

Numbered(choice) ==
  [i \in 1..Len(choice) |->
     [picNum |-> i - 1, picType |-> choice[i].picType,
      count_I |-> choice[i].count_I, count_P |-> choice[i].count_P,
      count_B |-> choice[i].count_B, bits |-> choice[i].bits,
      error |-> choice[i].error,
      unified_score_v2 |-> choice[i].unified_score_v2]]

InfoLists == {Numbered(c) : c \in SeqsUpTo(RecordChoices, MaxInfo)}

\* What the end of main() can do to the process.  The locals are destroyed in
\* reverse order; out_stream is a unique_ptr<ostream> that was reset() to
\* &std::cout or &file_stream, so its destructor deletes an object that was
\* never allocated with new: undefined behaviour.
ExitOutcomes(owner, status) ==
  IF owner = "null" THEN {status} ELSE {status, "abnormal"}

\* ComplexityWeights in hundredths; the defaults of the weight flags.
DefaultWeights ==
  [w_spatial |-> 25, w_motion |-> 30, w_residual |-> 25, w_error |-> 20]

\* The flags when none is given on the command line.
DefaultFlags ==
  [gop_size |-> 150, g |-> 0, bframes |-> 0, b |-> 0,
   complexity_score |-> "v2", weights |-> DefaultWeights]

\* struct CTX as constructed.
NewCTX ==
  [gop_size |-> 150, b_frames |-> 0, complexity_score |-> "v2",
   weights |-> DefaultWeights]

ValidScores == {"v1", "v2"}

\* ComplexityWeights::sum and ComplexityWeights::isValid
WeightsSum(w) == w.w_spatial + w.w_motion + w.w_residual + w.w_error
WeightsValid(w) == WeightsSum(w) = 100

NegativeWeight(w) ==
  w.w_spatial < 0 \/ w.w_motion < 0 \/ w.w_residual < 0 \/ w.w_error < 0

\* ctx.gop_size after "Handle GOP size with legacy support"
ResolveGopSize(gop_size, legacy_gop) ==
  IF legacy_gop > 0
  THEN IF gop_size # 150 /\ gop_size # legacy_gop THEN gop_size ELSE legacy_gop
  ELSE gop_size

\* ctx.b_frames after "Handle B-frames with legacy support"
ResolveBFrames(b_frames, legacy_bframes) ==
  IF legacy_bframes > 0
  THEN IF b_frames > 0 /\ b_frames # legacy_bframes THEN b_frames
                                                    ELSE legacy_bframes
  ELSE b_frames

\* The checks of ParseAndValidateFlags in their order: CTX as far as it was
\* filled, the warnings printed, and whether exit(1) was called.
ValidateFlags(f, fmt, lvl) ==
  LET gop == ResolveGopSize(f.gop_size, f.g)
      bfr == ResolveBFrames(f.bframes, f.b)
      w1  == (IF f.g > 0 /\ f.gop_size # 150 /\ f.gop_size # f.g
              THEN {"gop_size"} ELSE {})
               \cup (IF f.b > 0 /\ f.bframes > 0 /\ f.bframes # f.b
                     THEN {"bframes"} ELSE {})
      c1  == [NewCTX EXCEPT !.gop_size = gop, !.b_frames = bfr]
      c2  == [c1 EXCEPT !.complexity_score = f.complexity_score]
      c3  == [c2 EXCEPT !.weights = f.weights]
  IN  IF gop < 1 \/ bfr < 0 \/ fmt \notin ValidFormats \/ lvl \notin ValidDetails
      THEN [fatal |-> TRUE, ctx |-> c1, warned |-> w1]
      ELSE IF f.complexity_score \notin ValidScores
      THEN [fatal |-> TRUE, ctx |-> c2, warned |-> w1]
      ELSE IF NegativeWeight(f.weights)
      THEN [fatal |-> TRUE, ctx |-> c3, warned |-> w1]
      ELSE [fatal |-> FALSE, ctx |-> c3,
            warned |-> IF WeightsValid(f.weights) THEN w1
                                                  ELSE w1 \cup {"weights"}]

ParseAndValidateFlags ==
  /\ mpc = "parse"
  /\ LET v == ValidateFlags(FLAGS, format, detail)
     IN  /\ ctx' = v.ctx
         /\ warned' = v.warned
         /\ IF v.fatal
            THEN mpc' = "exited" /\ exitStatus' = "1"
            ELSE mpc' = "reader" /\ UNCHANGED exitStatus
  /\ UNCHANGED <<format, detail, outputFile, inputOk, outputOk, info, run, clock,
                 results, out_stream, file_stream, outputs, stamps, FLAGS>>
  /\ UNCHANGED <<analyzerVars, readerVars, ghostVars, pictureVars,
                 kernelVars, openVars, planeVars, traceVars>>

GetReader ==
  /\ mpc = "reader"
  /\ IF inputOk THEN mpc' = "analyze" /\ UNCHANGED exitStatus
                ELSE mpc' = "exited" /\ exitStatus' = "1"
  /\ UNCHANGED <<format, detail, outputFile, inputOk, outputOk, info, run, clock,
                 results, out_stream, file_stream, outputs, stamps>>
  /\ UNCHANGED <<analyzerVars, readerVars, ghostVars, pictureVars,
                 kernelVars, flagVars, openVars, planeVars, traceVars>>

\* analyzer.analyze(); getInfo(); DataConverter::convert(...)
AnalyzeAndConvert ==
  /\ mpc = "analyze"
  /\ \E now \in clock..MaxClock :
       /\ clock' = now
       /\ results' = convert(info, Video, now)
       /\ stamps' = Append(stamps, now)
  /\ mpc' = "open"
  /\ UNCHANGED <<format, detail, outputFile, inputOk, outputOk, info, run,
                 out_stream, file_stream, exitStatus, outputs>>
  /\ UNCHANGED <<analyzerVars, readerVars, ghostVars, pictureVars,
                 kernelVars, flagVars, openVars, planeVars, traceVars>>

OpenOutput ==
  /\ mpc = "open"
  /\ IF outputFile = "-"
     THEN /\ out_stream' = "cout"
          /\ mpc' = "write"
          /\ UNCHANGED file_stream
     ELSE IF outputOk
          THEN /\ file_stream' = "open"
               /\ out_stream' = "file_stream"
               /\ mpc' = "write"
          ELSE /\ mpc' = "return1"
               /\ UNCHANGED <<out_stream, file_stream>>
  /\ UNCHANGED <<format, detail, outputFile, inputOk, outputOk, info, run, clock,
                 results, exitStatus, outputs, stamps>>
  /\ UNCHANGED <<analyzerVars, readerVars, ghostVars, pictureVars,
                 kernelVars, flagVars, openVars, planeVars, traceVars>>

WriteOutput ==
  /\ mpc = "write"
  /\ IF format \in ValidFormats
     THEN /\ outputs' = Append(outputs, WriteResults(format, detail, results))
          /\ mpc' = "return0"
     ELSE /\ mpc' = "return1"
          /\ UNCHANGED outputs
  /\ UNCHANGED <<format, detail, outputFile, inputOk, outputOk, info, run, clock,
                 results, out_stream, file_stream, exitStatus, stamps>>
  /\ UNCHANGED <<analyzerVars, readerVars, ghostVars, pictureVars,
                 kernelVars, flagVars, openVars, planeVars, traceVars>>

\* return from main(): the locals are destroyed, the process ends.
LeaveMain ==
  /\ mpc \in {"return0", "return1"}
  /\ exitStatus' \in ExitOutcomes(out_stream, IF mpc = "return0" THEN "0" ELSE "1")
  /\ file_stream' = "closed"
  /\ mpc' = "exited"
  /\ UNCHANGED <<format, detail, outputFile, inputOk, outputOk, info, run, clock,
                 results, out_stream, outputs, stamps>>
  /\ UNCHANGED <<analyzerVars, readerVars, ghostVars, pictureVars,
                 kernelVars, flagVars, openVars, planeVars, traceVars>>

\* The same command is run again.
RunAgain ==
  /\ mpc = "exited"
  /\ run = 1
  /\ run' = 2
  /\ mpc' = "parse"
  /\ results' = NoResults
  /\ out_stream' = "null"
  /\ file_stream' = "closed"
  /\ exitStatus' = "none"
  /\ ctx' = NewCTX
  /\ warned' = {}
  /\ UNCHANGED <<format, detail, outputFile, inputOk, outputOk, info, clock,
                 outputs, stamps>>
  /\ UNCHANGED <<analyzerVars, readerVars, ghostVars, pictureVars,
                 kernelVars, FLAGS, openVars, planeVars, traceVars>>

\* No analyzer is being modelled step by step.
AnalyzerIdle ==
  /\ m_GOP_size = 1 /\ m_subGOP_size = 1 /\ m_num_frames = 0
  /\ pics = <<>> /\ m_info = <<>> /\ m_pReorderedInfo = NULL
  /\ pc = "off" /\ td = 0 /\ td_ref = 0 /\ j = 0
  /\ readerKind = "native" /\ eofEager = FALSE /\ source = NativeSource(0)
  /\ srcPos = 0 /\ decBuf = 0 /\ eof_ = FALSE /\ m_count = 0
  /\ created = <<>> /\ failure = FALSE /\ eofCaught = FALSE /\ iterReads = 0
  /\ trace = <<>> /\ calls = 0

InitMain ==
  /\ format \in ValidFormats \cup {"yaml"}
  /\ detail \in ValidDetails \cup {"mb"}
  /\ outputFile \in {"-", "out.file"}
  /\ inputOk \in BOOLEAN
  /\ outputOk \in BOOLEAN
  /\ info \in InfoLists
  /\ mpc = "parse" /\ run = 1 /\ clock = 0 /\ results = NoResults
  /\ out_stream = "null" /\ file_stream = "closed" /\ exitStatus = "none"
  /\ outputs = <<>> /\ stamps = <<>>
  /\ FLAGS = DefaultFlags /\ ctx = NewCTX /\ warned = {}
  /\ AnalyzerIdle
  /\ PictureIdle
  /\ KernelIdle
  /\ OpenIdle
  /\ PlaneIdle

NextMain ==
  \/ ParseAndValidateFlags
  \/ GetReader
  \/ AnalyzeAndConvert
  \/ OpenOutput
  \/ WriteOutput
  \/ LeaveMain
  \/ RunAgain

SpecMain == InitMain /\ [][NextMain]_vars

\* Command lines: values of --gop_size, -g, --bframes, -b,
\* --complexity_score and the four weight flags.
WeightFlagChoices ==
  { DefaultWeights,
    [DefaultWeights EXCEPT !.w_motion = -30],
    [DefaultWeights EXCEPT !.w_error = 70] }

FlagChoices ==
  [gop_size : {-1, 0, 2, 150}, g : {-1, 0, 3}, bframes : {-1, 0, 1},
   b : {-1, 0, 2}, complexity_score : {"v1", "v2", "v3"},
   weights : WeightFlagChoices]

InitFlags ==
  /\ FLAGS \in FlagChoices
  /\ format \in {"csv", "yaml"}
  /\ detail = "frame"
  /\ outputFile = "-"
  /\ inputOk = TRUE
  /\ outputOk = TRUE
  /\ info \in {l \in InfoLists : Len(l) = 1}
  /\ mpc = "parse" /\ run = 1 /\ clock = 0 /\ results = NoResults
  /\ out_stream = "null" /\ file_stream = "closed" /\ exitStatus = "none"
  /\ outputs = <<>> /\ stamps = <<>>
  /\ ctx = NewCTX /\ warned = {}
  /\ AnalyzerIdle
  /\ PictureIdle
  /\ KernelIdle
  /\ OpenIdle
  /\ PlaneIdle

SpecFlags == InitFlags /\ [][NextMain]_vars

\* A value the validation is there to reject, given on the command line.
InvalidConfiguration ==
  \/ FLAGS.gop_size < 1
  \/ FLAGS.bframes < 0
  \/ format \notin ValidFormats
  \/ FLAGS.complexity_score \notin ValidScores
  \/ NegativeWeight(FLAGS.weights)

\* C21: an invalid configuration (gop_size < 1, bframes < 0, unknown format,
\* unknown score version or a negative weight on the command line, with or
\* without a legacy -g / -b flag) ends the process with a non-zero status in
\* ParseAndValidateFlags, before the reader is opened; weights that only do
\* not sum to 1 give a warning and are used as they are.
C21_InvalidConfigIsFatal ==
  [][ mpc = "parse" =>
        /\ InvalidConfiguration => (mpc' = "exited" /\ exitStatus' = "1")
        /\ (~InvalidConfiguration /\ detail \in ValidDetails
              /\ ~WeightsValid(FLAGS.weights))
             => /\ mpc' = "reader"
                /\ ctx'.weights = FLAGS.weights
                /\ "weights" \in warned' ]_vars

\* C9: a run with valid flags, a readable input and a writable output ends
\* with exit status 0 after the results have been written; the shutdown path
\* does not turn a successful run into an abnormal exit.
C9_SuccessExitsZero ==
  (mpc = "exited" /\ Len(outputs) = run) => exitStatus = "0"

SameSecond(t1, t2) == (t1 \div TicksPerSecond) = (t2 \div TicksPerSecond)

\* The written text with the time field set to ts.
WithStamp(fmt, out, ts) ==
  IF fmt = "json" THEN [out EXCEPT !.metadata.analysis_timestamp = ts]
                  ELSE [out EXCEPT !.metadata.timestamp = ts]

\* C10 as stated: two runs on the same input with the same parameters write
\* byte-identical output, for csv, json and xml and both detail levels.
C10_ByteIdentical == (Len(outputs) = 2) => outputs[1] = outputs[2]

\* C10 amended: csv output is identical in both runs; json and xml output is
\* identical except for the analysis timestamp, so the whole output is
\* identical exactly when both conversions fall in the same second.
C10_IdenticalUpToTimestamp ==
  (Len(outputs) = 2) =>
    IF format = "csv"
    THEN outputs[1] = outputs[2]
    ELSE /\ WithStamp(format, outputs[1], 0) = WithStamp(format, outputs[2], 0)
         /\ (outputs[1] = outputs[2]) <=> SameSecond(stamps[1], stamps[2])

C10_Witness ==
  /\ Len(outputs) = 2
  /\ format = "json" /\ detail = "frame"
  /\ Len(info) >= 2
  /\ ~SameSecond(stamps[1], stamps[2])
  /\ outputs[1] # outputs[2]


\* The conversion of the current run has been done.
Converted == mpc \in {"open", "write", "exit"} /\ results # NoResults

RECURSIVE MemberFrames(_)
MemberFrames(gops) ==
  IF gops = <<>> THEN <<>> ELSE Head(gops).frames \o MemberFrames(Tail(gops))

RECURSIVE SumScoreV2(_, _)
SumScoreV2(info_vec, members) ==
  IF members = <<>> THEN RZero
  ELSE RAdd(info_vec[Head(members).frame_num + 1].unified_score_v2,
            SumScoreV2(info_vec, Tail(members)))

\* C14: the average complexity of each GOP record is the mean of score_v2 over
\* the member frames.
C14_AvgIsMeanScoreV2 ==
  Converted =>
    \A k \in 1..Len(results.gops) :
      results.gops[k].avg_complexity =
        RDivInt(SumScoreV2(info, results.gops[k].frames),
                Len(results.gops[k].frames))

\* The record list of the analyzer as main() hands it to the converter: the
\* counts and bits of a record of that picture type.
AsInfo(list) ==
  [i \in 1..Len(list) |->
     LET c == CHOOSE x \in RecordChoices : x.picType = list[i].picType
     IN  [picNum |-> list[i].picNum, picType |-> list[i].picType,
          count_I |-> c.count_I, count_P |-> c.count_P, count_B |-> c.count_B,
          bits |-> c.bits, error |-> c.error,
          unified_score_v2 |-> c.unified_score_v2]]

\* C15: for every GOP record made from the records analyze() returns,
\* total_bits is the sum of the members' bits, the three type counts add up to
\* the number of members, [start_frame, end_frame] is the range of the
\* members' frame numbers and end_frame - start_frame + 1 is the member count.
C15_GopTotals ==
  Returned =>
    LET gops == convert(AsInfo(m_info), Video, 0).gops
    IN  \A k \in 1..Len(gops) :
          LET g == gops[k]
              n == Len(g.frames)
          IN  /\ g.total_bits = SumBits(g.frames)
              /\ g.i_frame_count + g.p_frame_count + g.b_frame_count = n
              /\ g.start_frame = g.frames[1].frame_num
              /\ g.end_frame = g.frames[n].frame_num
              /\ g.end_frame - g.start_frame + 1 = n

(***************************************************************************)
(* One picture through process_i_picture / process_p_picture /             *)
(* process_b_picture: the per-MB array, the bit weighting, the enhanced    *)
(* metrics, their normalisation and the record.  A double is held in       *)
(* fixed point, in units of 1/FxOne.                                       *)
(***************************************************************************)
MaxMbCols == 2        \* widest frame, in macroblocks
MaxMbRows == 2        \* tallest frame, in macroblocks
MaxRawBits == 10      \* largest raw bit sum of the MV field
FxOne == 256          \* fixed-point unit

MB_WIDTH == 16
I_FRAME_BIT_WEIGHT == 282
P_FRAME_BIT_WEIGHT == 269
B_FRAME_BIT_WEIGHT == 256
MAX_VAR == 65025
MAX_MSE == 255 * 255

Fx(n) == n * FxOne
FxMul(a, b) == (a * b) \div FxOne
FxDiv(a, b) == (a * FxOne) \div b

\* The largest k in lo..hi with k * k <= n.
RECURSIVE ISqrtBetween(_, _, _)
ISqrtBetween(n, lo, hi) ==
  IF lo = hi THEN lo
  ELSE LET mid == (lo + hi + 1) \div 2
       IN  IF mid * mid <= n THEN ISqrtBetween(n, mid, hi)
                             ELSE ISqrtBetween(n, lo, mid - 1)

ISqrt(n) == ISqrtBetween(n, 0, 46340)

\* std::sqrt on a fixed-point value.
FxSqrt(a) == ISqrt(a * FxOne)

\* std::clamp, and the same call with the clamp left out.
clamp_none(v, lo, hi) == v
clamp(v, lo, hi) == IF v < lo THEN lo ELSE IF hi < v THEN hi ELSE v

\* ComplexityNormalization.cpp
normalizeVariance(variance, num_pixels) ==
  clamp(FxSqrt(variance \div MAX_VAR), 0, FxOne)

normalizeMVMagnitude(avg_mv_magnitude, width, height) ==
  LET frame_diagonal == FxSqrt(Fx(width * width + height * height))
      reference_magnitude == frame_diagonal \div 10
  IN  clamp(FxDiv(avg_mv_magnitude, reference_magnitude), 0, FxOne)

normalizeACEnergy(ac_energy, num_pixels) ==
  LET energy_per_pixel == Fx(ac_energy) \div num_pixels
  IN  clamp(energy_per_pixel \div 255, 0, FxOne)

normalizeMSE(mse) == clamp(FxSqrt(mse \div MAX_MSE), 0, FxOne)

computeBitsPerPixel(estimated_bits, num_pixels) ==
  IF num_pixels <= 0 THEN 0 ELSE Fx(estimated_bits) \div num_pixels

computeUnifiedScore_v1(metrics) == clamp(metrics.bits_per_pixel * 2, 0, FxOne)

computeUnifiedScore_v2(metrics, weights) ==
  clamp(FxMul(weights.w_spatial, metrics.norm_spatial)
          + FxMul(weights.w_motion, metrics.norm_motion)
          + FxMul(weights.w_residual, metrics.norm_residual)
          + FxMul(weights.w_error, metrics.norm_error),
        0, FxOne)

\* normalizeMetrics: the raw metrics with the norm_* fields and bits_per_pixel.
normalizeMetrics(raw, width, height) ==
  LET num_pixels == width * height
  IN  [spatial_variance |-> raw.spatial_variance,
       motion_magnitude |-> raw.motion_magnitude,
       ac_energy |-> raw.ac_energy,
       mse |-> raw.mse,
       estimated_bits |-> raw.estimated_bits,
       norm_spatial |-> normalizeVariance(raw.spatial_variance, num_pixels),
       norm_motion |-> normalizeMVMagnitude(raw.motion_magnitude, width, height),
       norm_residual |-> normalizeACEnergy(raw.ac_energy, num_pixels),
       norm_error |-> normalizeMSE(raw.mse),
       bits_per_pixel |-> computeBitsPerPixel(raw.estimated_bits, num_pixels)]

\* ---- the per-MB array of the analyzer
stride_MB(dim) == dim.width \div MB_WIDTH + 2
padded_height_MB(dim) == (dim.height + MB_WIDTH - 1) \div MB_WIDTH + 2
numItems(dim) == stride_MB(dim) * padded_height_MB(dim)
firstMB(dim) == stride_MB(dim) + 1
num_blocks(dim) == (dim.width \div MB_WIDTH) * (dim.height \div MB_WIDTH)

\* What freshly allocated memory can hold.
Garbage == {0, 9}

\* memory::AlignedAlloc: numItems cells whose contents are whatever the
\* allocator left there.
AlignedAlloc(n, fill) == [c \in 0..(n - 1) |-> fill]

\* The MSE the search finds for macroblock (by, bx) of a picture.
MsePatterns == {"zero", "flat", "bright", "ramp"}
MseAt(pattern, by, bx, cols) ==
  CASE pattern = "zero"   -> 0
    [] pattern = "flat"   -> 300
    [] pattern = "bright" -> 70000
    [] pattern = "ramp"   -> 100 * (by * cols + bx + 1)

\* Interior macroblocks of the frame, as (row, column).
InteriorMBs(dim) ==
  (0..(dim.height \div MB_WIDTH - 1)) \X (0..(dim.width \div MB_WIDTH - 1))

RECURSIVE SumMse(_, _, _)
SumMse(pattern, cols, mbs) ==
  IF mbs = {} THEN 0
  ELSE LET mb == CHOOSE x \in mbs : TRUE
       IN  MseAt(pattern, mb[1], mb[2], cols) + SumMse(pattern, cols, mbs \ {mb})

\* predictSpatial / predictTemporal / predictBidirectional: the search writes
\* the MSE of macroblock (by, bx) to cell first + by * stride_MB + bx of the
\* array it is handed and leaves the other cells alone.
WriteMses(mses, dim, pattern) ==
  LET cols == dim.width \div MB_WIDTH
  IN  [c \in DOMAIN mses |->
         LET by == (c \div stride_MB(dim)) - 1
             bx == (c % stride_MB(dim)) - 1
         IN  IF <<by, bx>> \in InteriorMBs(dim)
             THEN MseAt(pattern, by, bx, cols) ELSE mses[c]]

\* ComplexityAnalyzer::computeACEnergy on &m_mses[first]
RECURSIVE computeACEnergy(_, _, _)
computeACEnergy(mses, first, n) ==
  IF n = 0 THEN 0
  ELSE computeACEnergy(mses, first, n - 1) + mses[first + n - 1]

\* The bit weight of a picture type, and the weights handed out wrongly.
FrameBitWeight_Swapped(p) ==
  CASE p = "I" -> B_FRAME_BIT_WEIGHT
    [] p = "P" -> P_FRAME_BIT_WEIGHT
    [] p = "B" -> I_FRAME_BIT_WEIGHT
FrameBitWeight(p) ==
  CASE p = "I" -> I_FRAME_BIT_WEIGHT
    [] p = "P" -> P_FRAME_BIT_WEIGHT
    [] p = "B" -> B_FRAME_BIT_WEIGHT

\* bits = (WEIGHT * bits + 128) >> 8
weighted_bits(weight, bits) == (weight * bits + 128) \div 256

\* The body shared by process_i_picture, process_p_picture and
\* process_b_picture after the search: weighting, metrics, scores, record.
process_picture(p, found, pic, mses, dim, weights) ==
  LET bits == weighted_bits(FrameBitWeight(p), found.bits)
      raw == [spatial_variance |-> Fx(pic.variance),
              motion_magnitude |-> IF p = "I" THEN 0 ELSE Fx(pic.motion),
              ac_energy |-> computeACEnergy(mses, firstMB(dim), num_blocks(dim)),
              mse |-> Fx(found.error),
              estimated_bits |-> bits]
      metrics == normalizeMetrics(raw, dim.width, dim.height)
  IN  [picType |-> p,
       error |-> found.error,
       count_I |-> found.count_I,
       count_P |-> IF p = "I" THEN 0 ELSE found.count_P,
       count_B |-> IF p = "B" THEN found.count_B ELSE 0,
       bits |-> bits,
       spatial_variance |-> metrics.spatial_variance,
       motion_magnitude |-> metrics.motion_magnitude,
       ac_energy |-> metrics.ac_energy,
       bits_per_pixel |-> metrics.bits_per_pixel,
       unified_score_v1 |-> computeUnifiedScore_v1(metrics),
       unified_score_v2 |-> computeUnifiedScore_v2(metrics, weights),
       norm_spatial |-> metrics.norm_spatial,
       norm_motion |-> metrics.norm_motion,
       norm_residual |-> metrics.norm_residual,
       norm_error |-> metrics.norm_error]

\* ---- inputs
WeightChoices ==
  { [w_spatial |-> (25 * FxOne) \div 100, w_motion |-> (30 * FxOne) \div 100,
     w_residual |-> (25 * FxOne) \div 100, w_error |-> (20 * FxOne) \div 100],
    [w_spatial |-> FxOne, w_motion |-> FxOne, w_residual |-> FxOne,
     w_error |-> FxOne],
    [w_spatial |-> 0, w_motion |-> 0, w_residual |-> 0, w_error |-> 0] }

\* Average block variance and average MV magnitude of a still and of a busy
\* picture.
Activity == {[variance |-> 0, motion |-> 0], [variance |-> 70000, motion |-> 5]}

Pictures ==
  { [type |-> t, pattern |-> m, raw |-> b, variance |-> a.variance,
     motion |-> a.motion] :
      t \in {"I", "P", "B"}, m \in MsePatterns, b \in 0..MaxRawBits,
      a \in Activity }

\* ---- steps
\* The constructor allocates the per-MB array.
Construct ==
  /\ ppc = "construct"
  /\ \E fill \in Garbage : m_mses' = AlignedAlloc(numItems(m_dim), fill)
  /\ ppc' = "search"
  /\ UNCHANGED <<m_dim, m_weights, picture, search, m_rec, firstRec, prun>>
  /\ UNCHANGED <<analyzerVars, readerVars, ghostVars, mainVars, kernelVars, flagVars, openVars, planeVars, traceVars>>

\* The search of the picture: the MV field fills the interior cells and
\* returns the error sum, the raw bit sum and the block counts.
Search ==
  /\ ppc = "search"
  /\ m_mses' = WriteMses(m_mses, m_dim, picture.pattern)
  /\ search' = [error |-> SumMse(picture.pattern, m_dim.width \div MB_WIDTH,
                                 InteriorMBs(m_dim)),
                bits |-> picture.raw,
                count_I |-> IF picture.type = "I" THEN num_blocks(m_dim) ELSE 0,
                count_P |-> IF picture.type = "P" THEN num_blocks(m_dim) ELSE 0,
                count_B |-> IF picture.type = "B" THEN num_blocks(m_dim) ELSE 0]
  /\ ppc' = "process"
  /\ UNCHANGED <<m_dim, m_weights, picture, m_rec, firstRec, prun>>
  /\ UNCHANGED <<analyzerVars, readerVars, ghostVars, mainVars, kernelVars, flagVars, openVars, planeVars, traceVars>>

\* The rest of process_x_picture, up to add_info_enhanced.
ProcessPicture ==
  /\ ppc = "process"
  /\ m_rec' = process_picture(picture.type, search, picture, m_mses, m_dim,
                            m_weights)
  /\ ppc' = "recorded"
  /\ UNCHANGED <<m_dim, m_mses, m_weights, picture, search, firstRec, prun>>
  /\ UNCHANGED <<analyzerVars, readerVars, ghostVars, mainVars, kernelVars, flagVars, openVars, planeVars, traceVars>>

\* A second analyzer is constructed for the same input.
SecondAnalyzer ==
  /\ ppc = "recorded"
  /\ prun = 1
  /\ firstRec' = m_rec
  /\ m_rec' = <<>>
  /\ search' = <<>>
  /\ m_mses' = <<>>
  /\ prun' = 2
  /\ ppc' = "construct"
  /\ UNCHANGED <<m_dim, m_weights, picture>>
  /\ UNCHANGED <<analyzerVars, readerVars, ghostVars, mainVars, kernelVars, flagVars, openVars, planeVars, traceVars>>

InitPicture ==
  /\ \E c \in 1..MaxMbCols, r \in 1..MaxMbRows :
       m_dim = [width |-> c * MB_WIDTH, height |-> r * MB_WIDTH]
  /\ m_weights \in WeightChoices
  /\ picture \in Pictures
  /\ m_mses = <<>> /\ search = <<>> /\ m_rec = <<>> /\ firstRec = <<>>
  /\ ppc = "construct" /\ prun = 1
  /\ AnalyzerIdle
  /\ MainIdle
  /\ KernelIdle
  /\ FlagsIdle
  /\ OpenIdle
  /\ PlaneIdle

NextPicture ==
  \/ Construct
  \/ Search
  \/ ProcessPicture
  \/ SecondAnalyzer

SpecPicture == InitPicture /\ [][NextPicture]_vars

Recorded == ppc = "recorded"

\* C11: two analyzers run on the same input with the same settings produce
\* the same record in every field.
C11_SameRecords ==
  (Recorded /\ prun = 2) => m_rec = firstRec

\* C12: whatever the non-negative raw metrics and weights, the four norm_*
\* values and both scores of a record lie in [0, 1].
C12_ScoresInUnitRange ==
  Recorded =>
    \A v \in {m_rec.norm_spatial, m_rec.norm_motion, m_rec.norm_residual,
              m_rec.norm_error, m_rec.unified_score_v1, m_rec.unified_score_v2} :
      0 <= v /\ v <= FxOne

\* A record whose raw metrics all exceed the normalisation range, scored with
\* weights that sum to more than 1.
C12_Witness ==
  /\ Recorded
  /\ m_rec.picType = "P"
  /\ m_weights.w_spatial = FxOne
  /\ m_rec.norm_spatial = FxOne /\ m_rec.norm_motion = FxOne
  /\ m_rec.norm_error = FxOne
  /\ m_rec.unified_score_v2 = FxOne

\* C19: ac_energy of a record is the sum of the per-MB MSE over exactly the
\* interior macroblocks of the frame, the same total as the record's error.
C19_AcEnergyIsMbSum ==
  Recorded =>
    /\ m_rec.ac_energy = SumMse(picture.pattern, m_dim.width \div MB_WIDTH,
                              InteriorMBs(m_dim))
    /\ m_rec.ac_energy = m_rec.error

Widths == {4, 8, 16}
Levels == {0, 1, 128, 255}

\* Blocks of 8-bit samples: one level everywhere, one level with a single
\* different sample, or two levels alternating.
Blocks ==
  { [kind |-> "const", a |-> v, b |-> v] : v \in Levels }
    \cup { blk \in [kind : {"onepixel", "checker"}, a : Levels, b : Levels] :
             blk.a # blk.b }

ConstBlocks == { blk \in Blocks : blk.kind = "const" }

Sample(blk, y, x) ==
  CASE blk.kind = "const"    -> blk.a
    [] blk.kind = "onepixel" -> IF y = 0 /\ x = 0 THEN blk.b ELSE blk.a
    [] blk.kind = "checker"  -> IF (x + y) % 2 = 0 THEN blk.a ELSE blk.b

\* hn::AbsDiff on uint8 lanes
AbsDiff(a, b) == IF a >= b THEN a - b ELSE b - a

\* hn::Add on uint16 lanes, and the same with lanes one byte wide.
LaneAdd8(a, b) == (a + b) % 256
LaneAdd16(a, b) == (a + b) % 65536

\* hn::ReduceSum(d16, v) on uint16 lanes 0..n-1: the sum, as a uint16.
ReduceSum16(lanes, n) ==
  LET S[k \in 0..n] == IF k = 0 THEN 0 ELSE S[k - 1] + lanes[k - 1]
  IN  S[n] % 65536

\* f(0) + ... + f(n - 1): a loop over the rows of a block, or over the
\* samples of a row.
SumOver(n, f) ==
  LET S[k \in 0..n] == IF k = 0 THEN 0 ELSE S[k - 1] + f[k - 1]
  IN  S[n]

\* Two's complement value of the low 16 bits (int16 lanes).
Wrap16(v) == ((v + 32768) % 65536) - 32768

\* a * b as a 32-bit int holds it, for 0 <= a, b < 2^16: the product's low 32
\* bits read as a signed value, which is what the multiply leaves when the
\* mathematical product does not fit.
IntMul32(a, b) ==
  LET ah == a \div 256
      al == a % 256
      X == ah * b
      lo_total == (X % 256) * 256 + al * b
      hi16 == ((X \div 256) + (lo_total \div 65536)) % 65536
      lo16 == lo_total % 65536
  IN  (IF hi16 >= 32768 THEN hi16 - 65536 ELSE hi16) * 65536 + lo16

\* C integer division, truncating towards zero.
TruncDiv(a, b) == IF a >= 0 THEN a \div b ELSE -((-a) \div b)

\* fastSAD16_highway / fastSAD8_highway / fastSAD4_highway for width N:
\* N/2 uint16 lanes, two absolute differences added to each lane per row;
\* min_SAD is not used.
fastSAD_highway(N, current, reference, block_height, min_SAD) ==
  LET half == N \div 2
      sum16[y \in 0..block_height] ==
        IF y = 0 THEN [k \in 0..(half - 1) |-> 0]
        ELSE [k \in 0..(half - 1) |->
                LaneAdd16(LaneAdd16(sum16[y - 1][k],
                                    AbsDiff(Sample(current, y - 1, k),
                                            Sample(reference, y - 1, k))),
                          AbsDiff(Sample(current, y - 1, k + half),
                                  Sample(reference, y - 1, k + half)))]
  IN  ReduceSum16(sum16[block_height], half)

\* Does a * b (a, b >= 0) leave the range of int?
IntMulOverflows(a, b) == b > 0 /\ a > 2147483647 \div b

\* (a * a + h) / t without forming a * a: the value a build gets when it
\* carries the square in a wider register.
WideSquareDiv(a, h, t) ==
  LET q == a \div t
      r == a % t
  IN  q * a + ((r * a + h) \div t)

\* fast_variance16_highway / 8 / 4 for width N.  "sum * sum" is an int
\* multiply; when it overflows the behaviour is undefined, and the result is
\* any of the values a build produces: the wrapped product, or the square
\* carried in a wider register.
fast_variance_highway(N, current, block_height) ==
  LET half == N \div 2
      sum16[y \in 0..block_height] ==
        IF y = 0 THEN [k \in 0..(half - 1) |-> 0]
        ELSE [k \in 0..(half - 1) |->
                LaneAdd16(LaneAdd16(sum16[y - 1][k], Sample(current, y - 1, k)),
                          Sample(current, y - 1, k + half))]
      sq(y, x) == Sample(current, y, x) * Sample(current, y, x)
      sum == ReduceSum16(sum16[block_height], half)
      sum2 == SumOver(block_height, [y \in 0..(block_height - 1) |->
                       SumOver(N, [x \in 0..(N - 1) |-> sq(y, x)])])
      temp == block_height * N
  IN  IF IntMulOverflows(sum, sum)
      THEN { sum2 - TruncDiv(IntMul32(sum, sum) + (temp \div 2), temp),
             sum2 - WideSquareDiv(sum, temp \div 2, temp) }
      ELSE { sum2 - TruncDiv(sum * sum + (temp \div 2), temp) }

\* fast_bidir_mse16_highway / 8 / 4 for width N: the interpolation is done in
\* int16 lanes.
fast_bidir_mse_highway(N, current, reference1, reference2, block_height, td_mv) ==
  LET td_y == Wrap16(td_mv.y)
      td_x == Wrap16(td_mv.x)
      diff(y, x) ==
        LET interp == Wrap16(Wrap16(Sample(reference1, y, x) * td_y)
                               + Wrap16(Sample(reference2, y, x) * td_x))
            shifted == Wrap16(interp + 16384) \div 32768
        IN  Wrap16(shifted - Sample(current, y, x))
  IN  SumOver(block_height,
              [y \in 0..(block_height - 1) |->
                SumOver(N, [x \in 0..(N - 1) |-> diff(y, x) * diff(y, x)])])

\* The scalar references: the true SAD, and the bidirectional MSE with the
\* prediction (ref1 * td_y + ref2 * td_x + 16384) >> 15 computed in int.
sad_scalar(N, current, reference, block_height) ==
  SumOver(block_height,
          [y \in 0..(block_height - 1) |->
            SumOver(N, [x \in 0..(N - 1) |-> AbsDiff(Sample(current, y, x),
                                                      Sample(reference, y, x))])])

bidir_mse_scalar(N, current, reference1, reference2, block_height, td_mv) ==
  LET d(y, x) ==
        ((Sample(reference1, y, x) * td_mv.y
            + Sample(reference2, y, x) * td_mv.x + 16384) \div 32768)
          - Sample(current, y, x)
  IN  SumOver(block_height, [y \in 0..(block_height - 1) |->
                SumOver(N, [x \in 0..(N - 1) |-> d(y, x) * d(y, x)])])

\* ---- calls
TemporalWeights ==
  { [y |-> 0, x |-> 0], [y |-> 16384, x |-> 16384], [y |-> 8192, x |-> 24576] }
EarlyExits == {1, 1000, 70000}
NoBlock == [kind |-> "const", a |-> 0, b |-> 0]

KernelCalls ==
  { [kernel |-> "sad", N |-> n, current |-> c, reference |-> r,
     reference2 |-> NoBlock, td_mv |-> [y |-> 0, x |-> 0], min_SAD |-> e] :
       n \in Widths, c \in Blocks, r \in Blocks, e \in EarlyExits }
    \cup
  { [kernel |-> "variance", N |-> n, current |-> c, reference |-> NoBlock,
     reference2 |-> NoBlock, td_mv |-> [y |-> 0, x |-> 0], min_SAD |-> 0] :
       n \in Widths, c \in Blocks }
    \cup
  { [kernel |-> "bidir_mse", N |-> n, current |-> c, reference |-> r1,
     reference2 |-> r2, td_mv |-> t, min_SAD |-> 0] :
       n \in Widths, c \in Blocks, r1 \in ConstBlocks, r2 \in ConstBlocks,
       t \in TemporalWeights }

Return(v) ==
  /\ kernelOut' = [done |-> TRUE, value |-> v]
  /\ kpc' = "returned"
  /\ UNCHANGED kernelIn
  /\ UNCHANGED <<analyzerVars, readerVars, ghostVars, mainVars, pictureVars,
                 flagVars, openVars, planeVars, traceVars>>

\* fastSAD16 / fastSAD8 / fastSAD4
CallSAD ==
  /\ kpc = "call"
  /\ kernelIn.kernel = "sad"
  /\ Return(fastSAD_highway(kernelIn.N, kernelIn.current, kernelIn.reference,
                            kernelIn.N, kernelIn.min_SAD))

\* fast_variance16 / fast_variance8 / fast_variance4
CallVariance ==
  /\ kpc = "call"
  /\ kernelIn.kernel = "variance"
  /\ \E v \in fast_variance_highway(kernelIn.N, kernelIn.current, kernelIn.N) :
       Return(v)

\* fast_bidir_mse16 / fast_bidir_mse8 / fast_bidir_mse4
CallBidirMSE ==
  /\ kpc = "call"
  /\ kernelIn.kernel = "bidir_mse"
  /\ Return(fast_bidir_mse_highway(kernelIn.N, kernelIn.current,
                                   kernelIn.reference, kernelIn.reference2,
                                   kernelIn.N, kernelIn.td_mv))

InitKernel ==
  /\ kernelIn \in KernelCalls
  /\ kernelOut = [done |-> FALSE, value |-> 0]
  /\ kpc = "call"
  /\ AnalyzerIdle
  /\ MainIdle
  /\ PictureIdle
  /\ FlagsIdle
  /\ OpenIdle
  /\ PlaneIdle

NextKernel ==
  \/ CallSAD
  \/ CallVariance
  \/ CallBidirMSE

SpecKernel == InitKernel /\ [][NextKernel]_vars

Returned_(k) == kpc = "returned" /\ kernelIn.kernel = k

\* C16: the variance kernel returns a value >= 0, and 0 exactly when all
\* samples of the block are equal, for widths 16, 8 and 4.
C16_VarianceZeroIffConstant ==
  Returned_("variance") =>
    /\ kernelOut.value >= 0
    /\ (kernelOut.value = 0) <=> (kernelIn.current \in ConstBlocks)

\* C17: for weights with td_y + td_x = 32768 (and for td = (0, 0)) the
\* bidir_mse kernel returns the sum of (pred - cur)^2 with
\* pred = (ref1 * td_y + ref2 * td_x + 16384) >> 15 computed exactly.
C17_BidirMatchesScalar ==
  Returned_("bidir_mse") =>
    kernelOut.value = bidir_mse_scalar(kernelIn.N, kernelIn.current,
                                       kernelIn.reference, kernelIn.reference2,
                                       kernelIn.N, kernelIn.td_mv)

\* C18: the SAD kernel returns the exact sum of absolute differences when
\* that is below early_exit, and a value >= early_exit otherwise.
C18_SadAgreesWithScalar ==
  Returned_("sad") =>
    LET sad == sad_scalar(kernelIn.N, kernelIn.current, kernelIn.reference,
                          kernelIn.N)
    IN  /\ sad < kernelIn.min_SAD => kernelOut.value = sad
        /\ sad >= kernelIn.min_SAD => kernelOut.value >= kernelIn.min_SAD

\* Black against white, 16x16: the largest SAD there is, returned exactly.
C18_Witness ==
  /\ Returned_("sad")
  /\ kernelIn.N = 16
  /\ kernelIn.current = [kind |-> "const", a |-> 0, b |-> 0]
  /\ kernelIn.reference = [kind |-> "const", a |-> 255, b |-> 255]
  /\ kernelIn.min_SAD = 70000
  /\ kernelOut.value = 255 * 16 * 16

(***************************************************************************)
(* The padded plane and extend.                                            *)
(***************************************************************************)
MaxPlane == 2       \* largest width and height of the real area, in samples
MaxPad   == 2       \* largest pad_x and pad_y

SampleValues == {0, 1}

\* What a padding sample holds before the first extend.
Stale == 7

PlaneDims ==
  [width : 1..MaxPlane, height : 1..MaxPlane, pad_x : 0..MaxPad,
   pad_y : 0..MaxPad]

Rows(d) == (-d.pad_y)..(d.height + d.pad_y - 1)
Cols(d) == (-d.pad_x)..(d.width + d.pad_x - 1)

InRealArea(d, y, x) == y \in 0..(d.height - 1) /\ x \in 0..(d.width - 1)

\* A plane whose real area holds the picture pic and whose padding holds pad.
PlaneOf(d, pic, pad) ==
  [y \in Rows(d) |->
     [x \in Cols(d) |-> IF InRealArea(d, y, x) THEN pic[y][x] ELSE pad[y][x]]]

\* Step 1 of extend: the outermost real rows, copied into the padding rows
\* above and below.
extend_rows(p, d) ==
  [y \in Rows(d) |->
     [x \in Cols(d) |->
        IF x \in 0..(d.width - 1)
        THEN (IF y < 0 THEN p[0][x]
              ELSE IF y >= d.height THEN p[d.height - 1][x] ELSE p[y][x])
        ELSE p[y][x]]]

\* Step 2 of extend: the outermost real columns, copied into the padding
\* columns of every row, the padding rows included.
extend_columns(p, d) ==
  [y \in Rows(d) |->
     [x \in Cols(d) |->
        IF x < 0 THEN p[y][0]
        ELSE IF x >= d.width THEN p[y][d.width - 1] ELSE p[y][x]]]

\* extend with the two steps in the other order, and extend.
extend_ColumnsFirst(p, d) == extend_rows(extend_columns(p, d), d)
extend(p, d) == extend_columns(extend_rows(p, d), d)

\* Pictures a frame read can put into the real area.
PicturesOf(d) == [0..(d.height - 1) -> [0..(d.width - 1) -> SampleValues]]
FlatPicturesOf(d) ==
  { [y \in 0..(d.height - 1) |-> [x \in 0..(d.width - 1) |-> v]] :
      v \in SampleValues }

InitPlane ==
  /\ planeDim \in PlaneDims
  /\ \E pic \in PicturesOf(planeDim) :
       plane = PlaneOf(planeDim, pic,
                       [y \in Rows(planeDim) |-> [x \in Cols(planeDim) |-> Stale]])
  /\ xpc = "filled"
  /\ AnalyzerIdle
  /\ MainIdle
  /\ PictureIdle
  /\ KernelIdle
  /\ FlagsIdle
  /\ OpenIdle

\* extend(plane)
Extend ==
  /\ xpc = "filled"
  /\ plane' = extend(plane, planeDim)
  /\ xpc' = "extended"
  /\ UNCHANGED planeDim
  /\ UNCHANGED <<analyzerVars, readerVars, ghostVars, mainVars, pictureVars,
                 kernelVars, flagVars, openVars, traceVars>>

\* The next frame is read into the real area; the padding keeps what the
\* last extend left there.
Refill ==
  /\ xpc = "extended"
  /\ \E pic \in FlatPicturesOf(planeDim) :
       /\ \E y \in 0..(planeDim.height - 1), x \in 0..(planeDim.width - 1) :
            pic[y][x] # plane[y][x]
       /\ plane' = PlaneOf(planeDim, pic, plane)
  /\ xpc' = "filled"
  /\ UNCHANGED planeDim
  /\ UNCHANGED <<analyzerVars, readerVars, ghostVars, mainVars, pictureVars,
                 kernelVars, flagVars, openVars, traceVars>>

NextPlane ==
  \/ Extend
  \/ Refill

SpecPlane == InitPlane /\ [][NextPlane]_vars

\* C22: extend leaves every sample of the real area unchanged and makes every
\* padding sample equal to the nearest sample of the real area (coordinates
\* clamped to the real area), for any pad_x and pad_y.
C22_ExtendReplicatesEdges ==
  [][ (xpc = "filled" /\ xpc' = "extended") =>
        \A y \in Rows(planeDim), x \in Cols(planeDim) :
          plane'[y][x] = plane[clamp(y, 0, planeDim.height - 1)]
                              [clamp(x, 0, planeDim.width - 1)] ]_vars

\* A 2x2 picture with two different samples in its top row, padded on all
\* sides, extended: each corner region holds its corner sample.
C22_Witness ==
  /\ xpc = "extended"
  /\ planeDim = [width |-> 2, height |-> 2, pad_x |-> MaxPad, pad_y |-> MaxPad]
  /\ plane[0][0] # plane[0][1]
  /\ plane[-MaxPad][-MaxPad] = plane[0][0]
  /\ plane[-MaxPad][1 + MaxPad] = plane[0][1]
  /\ plane[1 + MaxPad][-MaxPad] = plane[1][0]
  /\ plane[1 + MaxPad][1 + MaxPad] = plane[1][1]

(***************************************************************************)
(* FFmpegSequenceReader::Open, cleanup, isOpen and the destructor.         *)
(***************************************************************************)
\* FFmpegSequenceReader::FFmpegSequenceReader
NewReader ==
  [format_ctx_ |-> "null", codec_ctx_ |-> "null", sws_ctx_ |-> "null",
   frame_ |-> "null", frame_yuv_ |-> "null", packet_ |-> "null",
   video_stream_idx_ |-> -1]

Handles ==
  {"format_ctx_", "codec_ctx_", "sws_ctx_", "frame_", "frame_yuv_", "packet_"}

\* The objects the handles of r point to.
Held(r) == { h \in Handles : r[h] # "null" }

\* cleanup() that frees the frames and the packet only, and cleanup().
cleanup_FramesOnly(r, objects) ==
  [rd |-> [r EXCEPT !.frame_yuv_ = "null", !.frame_ = "null",
                    !.packet_ = "null", !.video_stream_idx_ = -1],
   live |-> objects \ {o \in Held(r) : o \in {"frame_yuv_", "frame_", "packet_"}}]

cleanup(r, objects) == [rd |-> NewReader, live |-> objects \ Held(r)]

\* FFmpegSequenceReader::isOpen
isOpen(r) ==
  r.format_ctx_ # "null" /\ r.codec_ctx_ # "null" /\ r.video_stream_idx_ >= 0

\* The streams of the file, and the step of Open that fails.
StreamLayouts == SeqsUpTo({"audio", "video"}, 2)

OpenFaults ==
  {"none", "open_input", "stream_info", "no_decoder", "alloc_context",
   "parameters", "open_codec", "scaler", "frame", "frame_yuv", "packet",
   "frame+packet", "get_buffer"}

\* The objects av_frame_alloc / av_packet_alloc fail to allocate.
AllocFails(f) ==
  CASE f = "frame"        -> {"frame_"}
    [] f = "frame_yuv"    -> {"frame_yuv_"}
    [] f = "packet"       -> {"packet_"}
    [] f = "frame+packet" -> {"frame_", "packet_"}
    [] OTHER              -> {}

\* findVideoStream(): index of the first video stream, -1 if there is none.
findVideoStream(ss) ==
  IF \E i \in 1..Len(ss) : ss[i] = "video"
  THEN (CHOOSE i \in 1..Len(ss) :
          /\ ss[i] = "video"
          /\ \A k \in 1..(i - 1) : ss[k] # "video") - 1
  ELSE -1

OpenReturn(r, objects, result) ==
  /\ rd' = r
  /\ live' = objects
  /\ openResult' = result
  /\ opc' = "returned"

OpenFrame ==
  UNCHANGED <<analyzerVars, readerVars, ghostVars, mainVars, pictureVars,
              kernelVars, flagVars, planeVars, traceVars>>

\* "cleanup(); return false;"
CleanupAndFail(r, objects) ==
  LET c == cleanup(r, objects)
  IN  OpenReturn(c.rd, c.live, FALSE)

\* A step of Open succeeded: go on with the next one.
OpenStep(r, objects, next) ==
  /\ rd' = r
  /\ live' = objects
  /\ opc' = next
  /\ UNCHANGED openResult

\* avformat_open_input: on failure the context is freed and the handle left
\* null, and Open returns without cleanup().
OpenInput ==
  /\ opc = "open_input"
  /\ IF fault = "open_input"
     THEN OpenReturn(rd, live, FALSE)
     ELSE OpenStep([rd EXCEPT !.format_ctx_ = "format_ctx_"],
                   live \cup {"format_ctx_"}, "stream_info")
  /\ UNCHANGED <<streams, fault>>
  /\ OpenFrame

\* avformat_find_stream_info
FindStreamInfo ==
  /\ opc = "stream_info"
  /\ IF fault = "stream_info"
     THEN CleanupAndFail(rd, live)
     ELSE OpenStep(rd, live, "find_stream")
  /\ UNCHANGED <<streams, fault>>
  /\ OpenFrame

FindVideoStream ==
  /\ opc = "find_stream"
  /\ LET idx == findVideoStream(streams)
     IN  IF idx < 0
         THEN CleanupAndFail(rd, live)
         ELSE OpenStep([rd EXCEPT !.video_stream_idx_ = idx], live, "decoder")
  /\ UNCHANGED <<streams, fault>>
  /\ OpenFrame

\* initializeDecoder(): the codec context exists once avcodec_alloc_context3
\* has succeeded, whatever fails after it.
InitializeDecoder ==
  /\ opc = "decoder"
  /\ LET allocated == fault \notin {"no_decoder", "alloc_context"}
         r == IF allocated THEN [rd EXCEPT !.codec_ctx_ = "codec_ctx_"] ELSE rd
         objects == IF allocated THEN live \cup {"codec_ctx_"} ELSE live
     IN  IF fault \in {"no_decoder", "alloc_context", "parameters", "open_codec"}
         THEN CleanupAndFail(r, objects)
         ELSE OpenStep(r, objects, "scaler")
  /\ UNCHANGED <<streams, fault>>
  /\ OpenFrame

\* initializeScaler()
InitializeScaler ==
  /\ opc = "scaler"
  /\ IF fault = "scaler"
     THEN CleanupAndFail(rd, live)
     ELSE OpenStep([rd EXCEPT !.sws_ctx_ = "sws_ctx_"], live \cup {"sws_ctx_"},
                   "alloc")
  /\ UNCHANGED <<streams, fault>>
  /\ OpenFrame

\* av_frame_alloc, av_frame_alloc, av_packet_alloc, then the test of the three
AllocateFrames ==
  /\ opc = "alloc"
  /\ LET got == {"frame_", "frame_yuv_", "packet_"} \ AllocFails(fault)
         r == [h \in DOMAIN rd |-> IF h \in got THEN h ELSE rd[h]]
     IN  IF AllocFails(fault) # {}
         THEN CleanupAndFail(r, live \cup got)
         ELSE OpenStep(r, live \cup got, "buffer")
  /\ UNCHANGED <<streams, fault>>
  /\ OpenFrame

\* av_frame_get_buffer, and "return true"
GetBuffer ==
  /\ opc = "buffer"
  /\ IF fault = "get_buffer"
     THEN CleanupAndFail(rd, live)
     ELSE OpenReturn(rd, live, TRUE)
  /\ UNCHANGED <<streams, fault>>
  /\ OpenFrame

\* ~FFmpegSequenceReader
DestroyReader ==
  /\ opc = "returned"
  /\ LET c == cleanup(rd, live)
     IN  rd' = c.rd /\ live' = c.live
  /\ opc' = "destroyed"
  /\ UNCHANGED <<streams, fault, openResult>>
  /\ OpenFrame

InitOpen ==
  /\ rd = NewReader
  /\ streams \in StreamLayouts
  /\ fault \in OpenFaults
  /\ live = {}
  /\ opc = "open_input"
  /\ openResult = "none"
  /\ AnalyzerIdle
  /\ MainIdle
  /\ PictureIdle
  /\ KernelIdle
  /\ FlagsIdle
  /\ PlaneIdle

NextOpen ==
  \/ OpenInput
  \/ FindStreamInfo
  \/ FindVideoStream
  \/ InitializeDecoder
  \/ InitializeScaler
  \/ AllocateFrames
  \/ GetBuffer
  \/ DestroyReader

SpecOpen == InitOpen /\ [][NextOpen]_vars

\* C23: whenever Open returns false, whichever step failed, isOpen() is false
\* and every FFmpeg object acquired by the earlier steps has been released.
C23_FailedOpenReleasesAll ==
  (opc = "returned" /\ openResult = FALSE) => (~isOpen(rd) /\ live = {})

\* Open failed in its last step, with every handle acquired before it.
C23_Witness ==
  /\ opc = "returned"
  /\ openResult = FALSE
  /\ fault = "get_buffer"
  /\ streams = <<"audio", "video">>
  /\ ~isOpen(rd)
  /\ live = {}

(***************************************************************************)
(* The searches of analyze(), from the trace.                              *)
(***************************************************************************)
\* Index of the last event before i whose kind is in kinds, 0 if none.
LastBefore(i, kinds) ==
  LET found == { k \in 1..(i - 1) : trace[k].ev \in kinds }
  IN  IF found = {} THEN 0 ELSE CHOOSE k \in found : \A m \in found : m <= k

\* C25: within every subGOP the P search (target: the last slot filled) runs
\* before the B searches, the B searches then go through the slots in display
\* order from slot 1 upward, and every B search has slot 0 as forward and that
\* subGOP's P slot as backward reference.
C25_PThenBInDisplayOrder ==
  \A i \in 1..Len(trace) :
    /\ trace[i].ev = "P" =>
         LET r == LastBefore(i, {"read"})
         IN  r > 0 /\ trace[i].pos = trace[r].count - 1
    /\ trace[i].ev = "B" =>
         LET p == LastBefore(i, {"P"})
         IN  /\ p > 0
             /\ \A k \in (p + 1)..(i - 1) : trace[k].ev = "B"
             /\ trace[i].slot = i - p
             /\ trace[i].fwd = 0
             /\ trace[i].back = trace[p].slot
             /\ trace[i].backPos = trace[p].pos
             /\ trace[i].fwdPos < trace[i].pos
             /\ trace[i].pos < trace[p].pos

\* A subGOP with two B pictures has been searched: P, then slot 1, then slot 2.
C25_Witness ==
  \E i \in 3..Len(trace) :
    /\ trace[i].ev = "B" /\ trace[i].slot = 2
    /\ trace[i - 1].ev = "B" /\ trace[i - 1].slot = 1
    /\ trace[i - 2].ev = "P" /\ trace[i - 2].slot = 3

\* C26: in the returned list every maximal run of B records has at most
\* b_frames records, comes right after an I or P record and is followed by a
\* P record of the same GOP; the list does not end with a B record and no GOP
\* (an I record and the records up to the next I) has more than gop_size
\* records.
C26_ListShape ==
  Returned =>
    /\ \A i \in 1..Len(m_info) :
         m_info[i].picType = "B" =>
           /\ i > 1
           /\ i < Len(m_info)
           /\ m_info[i + 1].picType \in {"B", "P"}
    /\ \A i \in 1..(Len(m_info) - m_subGOP_size + 1) :
         \E k \in i..(i + m_subGOP_size - 1) : m_info[k].picType # "B"
    /\ \A i \in 1..(Len(m_info) - m_GOP_size) :
         \E k \in (i + 1)..(i + m_GOP_size) : m_info[k].picType = "I"

\* C27: whenever a P search runs, its reference is slot 0, slot 0 holds the
\* most recent anchor (the last I or P picture searched), and the reference's
\* sequence index is strictly smaller than the target's.
C27_AnchorPrecedesP ==
  \A i \in 1..Len(trace) :
    trace[i].ev = "P" =>
      LET a == LastBefore(i, {"I", "P"})
      IN  /\ a > 0
          /\ trace[i].fwd = 0
          /\ trace[i].fwdPos = trace[a].pos
          /\ trace[i].fwdPos < trace[i].pos

\* Frames that have been the target of an I or P search before event i.
AnchorsBefore(i) == { trace[k].pos : k \in {m \in 1..(i - 1) : trace[m].ev \in {"I", "P"}} }

\* C28: every reference of a P or B search has been extended since it was
\* last filled, and is a frame searched as I or P, never a B picture.
C28_ReferencesExtended ==
  \A i \in 1..Len(trace) :
    /\ trace[i].ev = "P" =>
         trace[i].fwdExt /\ trace[i].fwdPos \in AnchorsBefore(i)
    /\ trace[i].ev = "B" =>
         /\ trace[i].fwdExt /\ trace[i].fwdPos \in AnchorsBefore(i)
         /\ trace[i].backExt /\ trace[i].backPos \in AnchorsBefore(i)

\* A B search has run, and a P search whose reference is the P picture the
\* slot swap brought to slot 0.
C28_Witness ==
  /\ \E i \in 1..Len(trace) :
       trace[i].ev = "B" /\ trace[i].fwdExt /\ trace[i].backExt
  /\ \E i \in 1..Len(trace) :
       trace[i].ev = "P" /\ trace[i].fwdPos > 0 /\ trace[i].fwdExt

(***************************************************************************)
(* The reader at the end of the stream, and analyze() called again on the  *)
(* same analyzer.                                                          *)
(***************************************************************************)
MaxCalls == 2       \* analyze() calls on one analyzer

\* analyze() is called again after it has returned.
AnalyzeAgain ==
  /\ pc = "done"
  /\ calls < MaxCalls
  /\ pc' = "cond"
  /\ td' = 0
  /\ calls' = calls + 1
  /\ UNCHANGED <<m_GOP_size, m_subGOP_size, m_num_frames, pics, m_info,
                 m_pReorderedInfo, td_ref, j, readerVars, ghostVars, mainVars,
                 pictureVars, kernelVars, flagVars, openVars, planeVars, trace>>

NextAgain ==
  \/ AnalyzeCall
  \/ LoopTest
  \/ GopStart
  \/ SwapAnchor
  \/ ReadAhead
  \/ ProcessP
  \/ ProcessB
  \/ EndIteration
  \/ Flush
  \/ AnalyzeAgain

SpecAgain == Init /\ [][NextAgain]_vars

\* A stream FFmpeg demuxes and decodes without error.
WellFormedStream ==
  /\ source.demux = "eof"
  /\ \A i \in 1..Len(source.pkts) : source.pkts[i] \in {"video", "again", "other"}

\* C24: the FFmpeg reader has delivered every frame of the video stream when
\* it first signals the end of the stream, also when the decoder still holds
\* several frames at the moment the demuxer reports end of file.
C24_AllFramesBeforeEof ==
  (readerKind = "ffmpeg" /\ WellFormedStream /\ FFmpegEof(eof_))
    => m_count = StreamFrames(source)

\* Occurrences of record r in the list.
Occurrences(list, r) == Cardinality({ i \in 1..Len(list) : list[i] = r })

\* C29: after any sequence of analyze() calls every record created is in
\* getInfo() exactly once, and once analyze() has returned the pending slot
\* holds no record that a later call could flush again.
C29_NoRecordTwice ==
  Returned =>
    /\ \A r \in Range(created) : Occurrences(m_info, r) = 1
    /\ m_pReorderedInfo = NULL

ReadEvents == { i \in 1..Len(trace) : trace[i].ev = "read" }

\* C30: once a read of the FFmpeg reader has raised EndOfStream, eof() is
\* true and every later read raises EndOfStream again without advancing the
\* frame count; and whenever eof() is true the next read raises EndOfStream.
C30_EofSticky ==
  readerKind = "ffmpeg" =>
    /\ \A i \in ReadEvents :
         trace[i].thrown = "EOFException" =>
           /\ trace[i].eof
           /\ \A k \in ReadEvents :
                k > i => /\ trace[k].thrown = "EOFException"
                         /\ trace[k].count = trace[i].count
                         /\ trace[k].eof
    /\ FFmpegEof(eof_) =>
         LET r == FFmpegReadPicture(source, srcPos, decBuf, eof_)
         IN  r.thrown = "EOFException" /\ CountAfterRead(r) = m_count

\* A read raised EndOfStream, analyze() was called again and its read raised
\* EndOfStream again.
C30_Witness ==
  /\ readerKind = "ffmpeg"
  /\ calls = 2
  /\ \E i \in ReadEvents, k \in ReadEvents :
       /\ i < k
       /\ trace[i].thrown = "EOFException"
       /\ trace[k].thrown = "EOFException"
       /\ trace[i].count >= 1

====
